---- MODULE Spec2Model ----
(***************************************************************************)
(* A model of the FastAPI social-posting backend (src/app): the token      *)
(* service and auth guard (oauth2.py), the post handlers (routers/posts.py)*)
(* with their ownership checks, the vote handler (routers/votes.py), and   *)
(* the relational store behind them as models.py declares it (primary      *)
(* keys, foreign keys with ON DELETE CASCADE, serial ids).                 *)
(*                                                                         *)
(* Every request runs in its own SQLAlchemy session.  The dependency       *)
(* get_current_active_user (token check and user query) runs when the      *)
(* request arrives; past it a handler is split at its database round       *)
(* trips: its lookup, its flush+COMMIT and its refresh are separate atomic *)
(* steps, so two requests interleave exactly where PostgreSQL (READ        *)
(* COMMITTED) lets them.  A flush and the COMMIT that follows it are one   *)
(* step: a second writer of the same key waits for the first COMMIT and    *)
(* then sees its row, which is the outcome of running the two              *)
(* flush+COMMIT pairs one after the other.                                 *)
(***************************************************************************)
EXTENDS Integers, Sequences, FiniteSets, TLC

(***************************************************************************)
(* Bounds of the model.                                                    *)
(***************************************************************************)
\* ids the users_id_seq sequence may hand out
MaxUsers == 2
\* ids the posts_id_seq sequence may hand out
MaxPosts == 2
\* requests that may be in flight at the same time
MaxProcs == 2
\* clock resolution: instants per second (datetime has sub-second instants)
TicksPerSecond == 2
\* latest instant (in ticks) at which the token harness issues a token
MaxIssueTick == 5
\* vote requests the history keeps
MaxHist == 3
\* failed connection attempts the psycopg2 application makes before the
\* database answers
MaxRetries == 2

(***************************************************************************)
(* Program constants.                                                      *)
(***************************************************************************)
ACCESS_TOKEN_EXPIRE_MINUTES == 30
SECRET_KEY == "SECRET_KEY"
ALGORITHM == "HS256"

UserIds == 1..MaxUsers
PostIds == 1..MaxPosts
Procs == 1..MaxProcs

\* Optional values (Python's None) are sequences of length 0 or 1.
None == <<>>
Some(x) == <<x>>
Get(o) == o[1]

(***************************************************************************)
(* Token service (oauth2.py) over PyJWT.  Instants are clock ticks.        *)
(***************************************************************************)
\* timedelta(minutes = m) in ticks
timedelta_minutes(m) == m * 60 * TicksPerSecond

\* jwt.encode: a datetime "exp" claim becomes timegm(exp.utctimetuple()),
\* whole seconds since the epoch (NumericDate); the result is signed with
\* key under algorithm.
jwt_encode(to_encode, key, algorithm) ==
    [wellformed |-> TRUE,
     key        |-> key,
     alg        |-> algorithm,
     user_id    |-> to_encode.user_id,
     exp        |-> to_encode.exp \div TicksPerSecond]

\* create_access_token putting the issue instant itself into "exp"
create_access_token_no_ttl(data, now) ==
    jwt_encode([user_id |-> data.user_id, exp |-> now], SECRET_KEY, ALGORITHM)

\* create_access_token(data), called at instant now
create_access_token(data, now) ==
    LET expire    == now + timedelta_minutes(ACCESS_TOKEN_EXPIRE_MINUTES)
        to_encode == [user_id |-> data.user_id, exp |-> expire]
    IN  jwt_encode(to_encode, SECRET_KEY, ALGORITHM)

\* jwt.decode(token, key, algorithms=[algorithm]) at instant now: parse, then
\* check the algorithm and the signature, then the exp claim (expired when
\* exp <= now, leeway 0).  Each failure is a subclass of InvalidTokenError.
jwt_decode(token, key, algorithm, now) ==
    IF ~token.wellformed
    THEN [ok |-> FALSE, err |-> "DecodeError", payload |-> [user_id |-> None]]
    ELSE IF token.alg # algorithm
    THEN [ok |-> FALSE, err |-> "InvalidAlgorithmError", payload |-> [user_id |-> None]]
    ELSE IF token.key # key
    THEN [ok |-> FALSE, err |-> "InvalidSignatureError", payload |-> [user_id |-> None]]
    ELSE IF token.exp * TicksPerSecond <= now
    THEN [ok |-> FALSE, err |-> "ExpiredSignatureError", payload |-> [user_id |-> None]]
    ELSE [ok |-> TRUE, err |-> "", payload |-> [user_id |-> token.user_id]]

\* fastapi.HTTPException(status_code, detail, headers) as the response the
\* framework renders from it
HTTPException(status_code, detail, headers) ==
    [status |-> status_code, detail |-> detail, headers |-> headers, body |-> None]

\* A regular response
Response(status_code, body) ==
    [status |-> status_code, detail |-> "", headers |-> "", body |-> body]

\* An exception no handler catches: Starlette's 500
InternalServerError ==
    [status |-> 500, detail |-> "Internal Server Error", headers |-> "", body |-> None]

\* verify_access_token reporting why the token was refused
verify_access_token_telling(token, credentials_exception, now) ==
    LET d == jwt_decode(token, SECRET_KEY, ALGORITHM, now) IN
    IF ~d.ok
    THEN [ok |-> FALSE, err |-> d.err,
          raised |-> HTTPException(401, d.err, "WWW-Authenticate: Bearer"),
          username |-> None]
    ELSE IF d.payload.user_id = None
    THEN [ok |-> FALSE, err |-> "MissingClaim", raised |-> credentials_exception,
          username |-> None]
    ELSE [ok |-> TRUE, err |-> "", raised |-> credentials_exception,
          username |-> d.payload.user_id]

\* verify_access_token decoding with leeway=1 (one second of grace)
verify_access_token_leeway(token, credentials_exception, now) ==
    LET d == jwt_decode(token, SECRET_KEY, ALGORITHM, now - TicksPerSecond) IN
    IF ~d.ok
    THEN [ok |-> FALSE, err |-> d.err, raised |-> credentials_exception,
          username |-> None]
    ELSE IF d.payload.user_id = None
    THEN [ok |-> FALSE, err |-> "MissingClaim", raised |-> credentials_exception,
          username |-> None]
    ELSE [ok |-> TRUE, err |-> "", raised |-> credentials_exception,
          username |-> d.payload.user_id]

\* verify_access_token(token, credentials_exception) at instant now.
\* err keeps the internal reason; raised is what reaches the caller.
verify_access_token(token, credentials_exception, now) ==
    LET d == jwt_decode(token, SECRET_KEY, ALGORITHM, now) IN
    IF ~d.ok
    THEN [ok |-> FALSE, err |-> d.err, raised |-> credentials_exception,
          username |-> None]
    ELSE IF d.payload.user_id = None
    THEN [ok |-> FALSE, err |-> "MissingClaim", raised |-> credentials_exception,
          username |-> None]
    ELSE [ok |-> TRUE, err |-> "", raised |-> credentials_exception,
          username |-> d.payload.user_id]

(***************************************************************************)
(* The store (models.py) and the requests in flight.                       *)
(***************************************************************************)
VARIABLES
    users,          \* table users: id -> [email, password]
    users_id_seq,   \* last value of the serial users.id
    posts,          \* table posts: id -> [owner_id, title, content, published]
    posts_id_seq,   \* last value of the serial posts.id
    votes,          \* table votes: <<post_id, owner_id>> -> number of rows
    held,           \* the access token each client got at its last login
    clock,          \* the current instant, in ticks
    req,            \* the request each worker is handling
    hist,           \* history: the latest vote requests completed in a row
    issued,         \* token harness: the token issued, and when
    checked,        \* token harness: the last verification, and when
    extra           \* the psycopg2 application (src/extra/main.py)

store == <<users, users_id_seq, posts, posts_id_seq, votes>>
vars == <<users, users_id_seq, posts, posts_id_seq, votes, held, clock, req,
          hist, issued, checked, extra>>

Email(u) == "user" \o ToString(u) \o "@x.com"
Emails == {Email(u) : u \in UserIds}
Passwords == {"secret1"}
Guesses == {"secret1", "secret2"}
PostCreate == {[title |-> "t1", content |-> "c1", published |-> TRUE],
               [title |-> "t2", content |-> "c2", published |-> FALSE]}
\* dir as the client may send it
Dirs == {0, 1, 2}
\* schema.VoteSchema: dir: Literal[0, 1]
VoteSchema_dir == {0, 1}

\* utils.hash_password / utils.verify_password
hash_password(password) == [scheme |-> "argon2", of |-> password]
verify_password(plain_password, hashed_password) ==
    hashed_password = hash_password(plain_password)

\* Tokens no login issued: not a JWT at all, signed with another key, and
\* signed with the shared secret by another issuer without a user_id claim.
MalformedToken ==
    [wellformed |-> FALSE, key |-> "", alg |-> "", user_id |-> None, exp |-> 0]
ForgedToken ==
    [wellformed |-> TRUE, key |-> "attacker", alg |-> ALGORITHM,
     user_id |-> Some(1), exp |-> 2 * ACCESS_TOKEN_EXPIRE_MINUTES * 60]
ClaimlessToken ==
    [wellformed |-> TRUE, key |-> SECRET_KEY, alg |-> ALGORITHM,
     user_id |-> None, exp |-> 2 * ACCESS_TOKEN_EXPIRE_MINUTES * 60]
BearerTokens ==
    {Get(held[u]) : u \in {v \in UserIds : held[v] # None}}
        \cup {MalformedToken, ForgedToken, ClaimlessToken}

\* src/extra/main.py as the module starts to load: no connection, no cursor,
\* an empty posts table behind it
ExtraInit ==
    [pc |-> "connect", conn |-> FALSE, retries |-> 0, error |-> "",
     table |-> <<>>, id_seq |-> 0, resp |-> None]

NoPayload == [title |-> "", content |-> "", published |-> TRUE]
IdleReq ==
    [pc |-> "idle", op |-> "", token |-> MalformedToken, id |-> 0,
     payload |-> NoPayload, dir |-> 0, current_user |-> None, post |-> None,
     existing_vote |-> FALSE, authErr |-> "", exc |-> "",
     user_gone |-> FALSE, wrote |-> FALSE, resp |-> None]

\* whether the user a token names has no row (any more)
UserGone(token) ==
    token.user_id # None /\ Get(token.user_id) \notin DOMAIN users

NewReq(op, token, id, payload, dir) ==
    [IdleReq EXCEPT !.pc = "arrived", !.op = op, !.token = token, !.id = id,
                    !.payload = payload, !.dir = dir,
                    !.user_gone = UserGone(token)]

Init ==
    /\ users = <<>>
    /\ users_id_seq = 0
    /\ posts = <<>>
    /\ posts_id_seq = 0
    /\ votes = [k \in PostIds \X UserIds |-> 0]
    /\ held = [u \in UserIds |-> None]
    /\ clock = 0
    /\ req = [r \in Procs |-> IdleReq]
    /\ hist = <<>>
    /\ issued = None
    /\ checked = None
    /\ extra = ExtraInit

(***************************************************************************)
(* Auth guard (oauth2.py).                                                 *)
(***************************************************************************)
credentials_exception ==
    HTTPException(401, "Could not validate credentials", "WWW-Authenticate: Bearer")

\* get_current_active_user trusting a verified token without the user query
get_current_active_user_no_query(token, usersTable, now) ==
    LET token_data == verify_access_token(token, credentials_exception, now) IN
    IF ~token_data.ok
    THEN [ok |-> FALSE, err |-> token_data.err, raised |-> token_data.raised,
          user |-> None]
    ELSE [ok |-> TRUE, err |-> "", raised |-> credentials_exception,
          user |-> token_data.username]

\* get_current_active_user(token, db) at instant now, db holding usersTable
get_current_active_user(token, usersTable, now) ==
    LET token_data == verify_access_token(token, credentials_exception, now) IN
    IF ~token_data.ok
    THEN [ok |-> FALSE, err |-> token_data.err, raised |-> token_data.raised,
          user |-> None]
    ELSE IF Get(token_data.username) \notin DOMAIN usersTable
    THEN [ok |-> FALSE, err |-> "UserNotFound", raised |-> credentials_exception,
          user |-> None]
    ELSE [ok |-> TRUE, err |-> "", raised |-> credentials_exception,
          user |-> token_data.username]

(***************************************************************************)
(* What the store enforces (models.py).                                    *)
(***************************************************************************)
\* votes declared without its primary key
Vote_no_primary_key(post_id, owner_id) == TRUE

\* Vote: post_id and owner_id are the composite primary key
Vote_primary_key_free(post_id, owner_id) == votes[<<post_id, owner_id>>] = 0

\* votes declared without its foreign keys
Vote_no_foreign_keys(post_id, owner_id) == TRUE

\* Vote: ForeignKey("posts.id"), ForeignKey("users.id")
Vote_foreign_keys_hold(post_id, owner_id) ==
    post_id \in DOMAIN posts /\ owner_id \in DOMAIN users

\* Post: owner_id ForeignKey("users.id")
Post_foreign_key_holds(owner_id) == owner_id \in DOMAIN users

\* User: email unique=True
User_email_free(email) == \A u \in DOMAIN users : users[u].email # email

\* votes left when the posts in gone are deleted: ondelete="CASCADE"
Vote_cascade_posts(gone) ==
    [k \in DOMAIN votes |-> IF k[1] \in gone THEN 0 ELSE votes[k]]

\* posts and votes left when user u is deleted: ondelete="CASCADE"
Post_cascade_user(u) ==
    [p \in {q \in DOMAIN posts : posts[q].owner_id # u} |-> posts[p]]
Vote_cascade_user(u) ==
    [k \in DOMAIN votes |->
        IF k[2] = u \/ (k[1] \in DOMAIN posts /\ posts[k[1]].owner_id = u)
        THEN 0 ELSE votes[k]]

\* schema.PostSchema built from a posts row (owner loaded through the relationship)
PostSchema(id, row) ==
    [id |-> id, owner_id |-> row.owner_id,
     owner |-> [id |-> row.owner_id, email |-> users[row.owner_id].email],
     title |-> row.title, content |-> row.content, published |-> row.published]

\* schema.VoteResponse
VoteResponse(post_id, owner_id) == [post_id |-> post_id, owner_id |-> owner_id]

(***************************************************************************)
(* Registration, login, the clock and the administrator.                   *)
(***************************************************************************)
\* users.create_user: INSERT and COMMIT.  nextval is taken even when the
\* INSERT fails on the unique email.
create_user(email, password) ==
    /\ users_id_seq < MaxUsers
    /\ users_id_seq' = users_id_seq + 1
    /\ users' = IF User_email_free(email)
                THEN (users_id_seq + 1 :> [email |-> email,
                                          password |-> hash_password(password)])
                     @@ users
                ELSE users
    /\ UNCHANGED <<posts, posts_id_seq, votes, held, clock, req>>

\* auth.login with credentials that pass: the client keeps the token.  With
\* an unknown email or a wrong password login raises 401 and changes nothing.
login(email, password) ==
    /\ \E u \in DOMAIN users :
          /\ users[u].email = email
          /\ verify_password(password, users[u].password)
          /\ held' = [held EXCEPT
                        ![u] = Some(create_access_token([user_id |-> Some(u)], clock))]
    /\ UNCHANGED <<users, users_id_seq, posts, posts_id_seq, votes, clock, req>>

\* time passes
Tick(d, horizon) ==
    /\ clock + d <= horizon
    /\ clock' = clock + d
    /\ UNCHANGED <<users, users_id_seq, posts, posts_id_seq, votes, held, req>>

\* A user row is deleted outside the API; posts and votes go with it.
AdminDeleteUser(u) ==
    /\ u \in DOMAIN users
    /\ users' = [v \in DOMAIN users \ {u} |-> users[v]]
    /\ posts' = Post_cascade_user(u)
    /\ votes' = Vote_cascade_user(u)
    /\ UNCHANGED <<users_id_seq, posts_id_seq, held, clock, req>>

(***************************************************************************)
(* Requests.                                                               *)
(***************************************************************************)
Free(r) == req[r].pc \in {"idle", "done"}

Become(r, rec) == req' = [req EXCEPT ![r] = rec]
Finish(r, response) ==
    Become(r, [req[r] EXCEPT !.pc = "done", !.resp = Some(response)])
\* an exception nothing catches: the server logs it and answers 500
Raise(r, exception) ==
    Become(r, [req[r] EXCEPT !.pc = "done", !.exc = exception,
                             !.resp = Some(InternalServerError)])

\* The dependency get_current_active_user, run when the request arrives,
\* then FastAPI's validation of the body against the schema (422).  The
\* request goes on to its handler only past both.
RequestValidationError == HTTPException(422, "literal_error", "")

Authenticate(rq) ==
    LET a == get_current_active_user(rq.token, users, clock) IN
    IF ~a.ok
    THEN [rq EXCEPT !.pc = "done", !.authErr = a.err, !.resp = Some(a.raised)]
    ELSE IF rq.op = "vote" /\ rq.dir \notin VoteSchema_dir
    THEN [rq EXCEPT !.pc = "done", !.current_user = a.user,
                    !.resp = Some(RequestValidationError)]
    ELSE [rq EXCEPT !.pc = IF rq.op = "create_post" THEN "commit" ELSE "query",
                    !.current_user = a.user]

\* create_post requests that will still take a posts.id
PendingCreates ==
    Cardinality({q \in Procs : req[q].op = "create_post" /\ req[q].pc = "commit"})

\* A request arrives at worker r.  The menus (tokens, ids, posts, dirs) are
\* what the clients of a specification send.
StartCreatePost(r, tokens, bodies, limit) ==
    /\ Free(r)
    /\ posts_id_seq + PendingCreates < limit
    /\ \E token \in tokens, post \in bodies :
          Become(r, Authenticate(NewReq("create_post", token, 0, post, 0)))
    /\ UNCHANGED <<users, users_id_seq, posts, posts_id_seq, votes, held, clock>>

StartUpdatePost(r, tokens, ids, bodies) ==
    /\ Free(r)
    /\ \E token \in tokens, id \in ids, post \in bodies :
          Become(r, Authenticate(NewReq("update_post", token, id, post, 0)))
    /\ UNCHANGED <<users, users_id_seq, posts, posts_id_seq, votes, held, clock>>

StartDeletePost(r, tokens, ids) ==
    /\ Free(r)
    /\ \E token \in tokens, id \in ids :
          Become(r, Authenticate(NewReq("delete_post", token, id, NoPayload, 0)))
    /\ UNCHANGED <<users, users_id_seq, posts, posts_id_seq, votes, held, clock>>

StartVote(r, tokens, ids, dirs) ==
    /\ Free(r)
    /\ \E token \in tokens, post_id \in ids, dir \in dirs :
          Become(r, Authenticate(NewReq("vote", token, post_id, NoPayload, dir)))
    /\ UNCHANGED <<users, users_id_seq, posts, posts_id_seq, votes, held, clock>>

(***************************************************************************)
(* routers/votes.py: vote                                                  *)
(***************************************************************************)
\* vote adding again over an existing vote without complaint
vote_checks_silent_add(dir, existing_vote, user_id, post_id) ==
    IF dir = 1
    THEN None
    ELSE IF dir = 0
    THEN IF ~existing_vote
         THEN Some(HTTPException(404, "Vote does not exist", ""))
         ELSE None
    ELSE Some(HTTPException(400, "Invalid vote direction", ""))

\* vote removing a vote that is not there without complaint
vote_checks_silent_remove(dir, existing_vote, user_id, post_id) ==
    IF dir = 1
    THEN IF existing_vote
         THEN Some(HTTPException(409, "user " \o ToString(user_id)
                                      \o " has already voted on post "
                                      \o ToString(post_id), ""))
         ELSE None
    ELSE IF dir = 0
    THEN None
    ELSE Some(HTTPException(400, "Invalid vote direction", ""))

\* vote after the existence query: the branch on vote.dir up to the
\* statement that writes.  The result is the exception raised, or None when
\* the handler goes on to write.
vote_checks(dir, existing_vote, user_id, post_id) ==
    IF dir = 1
    THEN IF existing_vote
         THEN Some(HTTPException(409, "user " \o ToString(user_id)
                                      \o " has already voted on post "
                                      \o ToString(post_id), ""))
         ELSE None
    ELSE IF dir = 0
    THEN IF ~existing_vote
         THEN Some(HTTPException(404, "Vote does not exist", ""))
         ELSE None
    ELSE Some(HTTPException(400, "Invalid vote direction", ""))

\* vote_query.first(), then the checks
vote_query(r) ==
    /\ req[r].pc = "query" /\ req[r].op = "vote"
    /\ LET uid           == Get(req[r].current_user)
           existing_vote == votes[<<req[r].id, uid>>] > 0
           raised        == vote_checks(req[r].dir, existing_vote, uid, req[r].id)
       IN
       IF raised # None
       THEN Become(r, [req[r] EXCEPT !.pc = "done", !.existing_vote = existing_vote,
                                     !.resp = raised])
       ELSE Become(r, [req[r] EXCEPT !.pc = "commit", !.existing_vote = existing_vote])
    /\ UNCHANGED <<users, users_id_seq, posts, posts_id_seq, votes, held, clock>>

\* dir == 1: db.add(new_vote); db.commit().  The INSERT fails with an
\* IntegrityError, which nothing catches, on a duplicate key or a missing
\* post or user.
\* dir == 0: vote_query.delete(); db.commit()
vote_commit(r) ==
    /\ req[r].pc = "commit" /\ req[r].op = "vote"
    /\ LET uid == Get(req[r].current_user)
           k   == <<req[r].id, uid>>
       IN
       IF req[r].dir = 1
       THEN IF ~Vote_primary_key_free(req[r].id, uid)
            THEN /\ votes' = votes
                 /\ Raise(r, "IntegrityError: UniqueViolation")
            ELSE IF ~Vote_foreign_keys_hold(req[r].id, uid)
            THEN /\ votes' = votes
                 /\ Raise(r, "IntegrityError: ForeignKeyViolation")
            ELSE /\ votes' = [votes EXCEPT ![k] = @ + 1]
                 /\ Become(r, [req[r] EXCEPT !.pc = "refresh", !.wrote = TRUE])
       ELSE /\ votes' = [votes EXCEPT ![k] = 0]
            /\ Become(r, [req[r] EXCEPT !.pc = "done", !.wrote = (votes[k] > 0),
                                        !.resp = Some(Response(204, None))])
    /\ UNCHANGED <<users, users_id_seq, posts, posts_id_seq, held, clock>>

\* db.refresh(new_vote); return new_vote
vote_refresh(r) ==
    /\ req[r].pc = "refresh" /\ req[r].op = "vote"
    /\ LET uid == Get(req[r].current_user) IN
       IF votes[<<req[r].id, uid>>] > 0
       THEN Finish(r, Response(201, Some(VoteResponse(req[r].id, uid))))
       ELSE Raise(r, "InvalidRequestError")
    /\ UNCHANGED <<users, users_id_seq, posts, posts_id_seq, votes, held, clock>>

(***************************************************************************)
(* routers/posts.py: create_post, delete_post, update_post                 *)
(***************************************************************************)
\* the new row owned by a fixed user instead of the caller
Post_new_first_user(post, current_user_id) ==
    [owner_id |-> 1, title |-> post.title, content |-> post.content,
     published |-> post.published]

\* Post(**post.model_dump(), owner_id=current_user.id)
Post_new(post, current_user_id) ==
    [owner_id |-> current_user_id, title |-> post.title, content |-> post.content,
     published |-> post.published]

\* db.add(new_post); db.commit()
create_post_commit(r) ==
    /\ req[r].pc = "commit" /\ req[r].op = "create_post"
    /\ posts_id_seq' = posts_id_seq + 1
    /\ LET uid == Get(req[r].current_user)
           id  == posts_id_seq + 1
           row == Post_new(req[r].payload, uid)
       IN
       IF Post_foreign_key_holds(uid)
       THEN /\ posts' = (id :> row) @@ posts
            /\ Become(r, [req[r] EXCEPT !.pc = "refresh", !.id = id,
                                        !.wrote = TRUE])
       ELSE /\ posts' = posts
            /\ Raise(r, "IntegrityError: ForeignKeyViolation")
    /\ UNCHANGED <<users, users_id_seq, votes, held, clock>>

\* db.refresh(new_post); return new_post
create_post_refresh(r) ==
    /\ req[r].pc = "refresh" /\ req[r].op = "create_post"
    /\ IF req[r].id \in DOMAIN posts
       THEN Finish(r, Response(201, Some(PostSchema(req[r].id, posts[req[r].id]))))
       ELSE Raise(r, "InvalidRequestError")
    /\ UNCHANGED <<users, users_id_seq, posts, posts_id_seq, votes, held, clock>>

\* delete_post without its ownership check
delete_post_checks_any_user(post, id, current_user_id) ==
    IF post = None
    THEN Some(HTTPException(404, "post with id " \o ToString(id) \o " not found", ""))
    ELSE None

\* update_post with one guard for both failures
update_post_checks_merged(db_post, id, current_user_id) ==
    IF db_post = None \/ Get(db_post).owner_id # current_user_id
    THEN Some(HTTPException(403, "Not authorized to update this post", ""))
    ELSE None

\* delete_post up to db.delete: the lookup, then the two checks.  The result
\* is the exception raised, or None when the handler goes on.
delete_post_checks(post, id, current_user_id) ==
    IF post = None
    THEN Some(HTTPException(404, "post with id " \o ToString(id) \o " not found", ""))
    ELSE IF Get(post).owner_id # current_user_id
    THEN Some(HTTPException(403, "Not authorized to delete this post", ""))
    ELSE None

\* update_post up to the setattr loop
update_post_checks(db_post, id, current_user_id) ==
    IF db_post = None
    THEN Some(HTTPException(404, "post with id " \o ToString(id) \o " not found", ""))
    ELSE IF Get(db_post).owner_id # current_user_id
    THEN Some(HTTPException(403, "Not authorized to update this post", ""))
    ELSE None

\* db.query(Post).filter(Post.id == id).first()
Post_first(id) == IF id \in DOMAIN posts THEN Some(posts[id]) ELSE None

delete_post_query(r) ==
    /\ req[r].pc = "query" /\ req[r].op = "delete_post"
    /\ LET post   == Post_first(req[r].id)
           raised == delete_post_checks(post, req[r].id, Get(req[r].current_user))
       IN
       IF raised # None
       THEN Become(r, [req[r] EXCEPT !.pc = "done", !.post = post, !.resp = raised])
       ELSE Become(r, [req[r] EXCEPT !.pc = "commit", !.post = post])
    /\ UNCHANGED <<users, users_id_seq, posts, posts_id_seq, votes, held, clock>>

\* db.delete(post); db.commit().  A DELETE that matches no row (the post is
\* already gone) only warns.
delete_post_commit(r) ==
    /\ req[r].pc = "commit" /\ req[r].op = "delete_post"
    /\ posts' = [p \in DOMAIN posts \ {req[r].id} |-> posts[p]]
    /\ votes' = IF req[r].id \in DOMAIN posts
                THEN Vote_cascade_posts({req[r].id}) ELSE votes
    /\ Become(r, [req[r] EXCEPT !.pc = "done",
                                !.wrote = (req[r].id \in DOMAIN posts),
                                !.resp = Some(Response(204, None))])
    /\ UNCHANGED <<users, users_id_seq, posts_id_seq, held, clock>>

update_post_query(r) ==
    /\ req[r].pc = "query" /\ req[r].op = "update_post"
    /\ LET db_post == Post_first(req[r].id)
           raised  == update_post_checks(db_post, req[r].id, Get(req[r].current_user))
       IN
       IF raised # None
       THEN Become(r, [req[r] EXCEPT !.pc = "done", !.post = db_post, !.resp = raised])
       ELSE Become(r, [req[r] EXCEPT !.pc = "commit", !.post = db_post])
    /\ UNCHANGED <<users, users_id_seq, posts, posts_id_seq, votes, held, clock>>

\* setattr for every key of post.model_dump(); db.commit().  The UPDATE sets
\* the columns whose value differs from the loaded one; with none, no UPDATE
\* is sent.  An UPDATE that matches no row raises StaleDataError.
update_post_commit(r) ==
    /\ req[r].pc = "commit" /\ req[r].op = "update_post"
    /\ LET loaded == Get(req[r].post)
           new    == req[r].payload
           dirty  == new.title # loaded.title \/ new.content # loaded.content
                        \/ new.published # loaded.published
           id     == req[r].id
       IN
       IF ~dirty
       THEN /\ posts' = posts
            /\ Become(r, [req[r] EXCEPT !.pc = "refresh"])
       ELSE IF id \notin DOMAIN posts
       THEN /\ posts' = posts
            /\ Raise(r, "StaleDataError")
       ELSE /\ posts' = [posts EXCEPT ![id] =
                  [owner_id  |-> @.owner_id,
                   title     |-> IF new.title # loaded.title
                                 THEN new.title ELSE @.title,
                   content   |-> IF new.content # loaded.content
                                 THEN new.content ELSE @.content,
                   published |-> IF new.published # loaded.published
                                 THEN new.published ELSE @.published]]
            /\ Become(r, [req[r] EXCEPT !.pc = "refresh", !.wrote = TRUE])
    /\ UNCHANGED <<users, users_id_seq, posts_id_seq, votes, held, clock>>

\* db.refresh(db_post); return db_post
update_post_refresh(r) ==
    /\ req[r].pc = "refresh" /\ req[r].op = "update_post"
    /\ IF req[r].id \in DOMAIN posts
       THEN Finish(r, Response(200, Some(PostSchema(req[r].id, posts[req[r].id]))))
       ELSE Raise(r, "InvalidRequestError")
    /\ UNCHANGED <<users, users_id_seq, posts, posts_id_seq, votes, held, clock>>

(***************************************************************************)
(* routers/posts.py: get_post                                              *)
(***************************************************************************)
\* func.count(Vote.post_id) over the outer join, grouped by Post.id: the
\* number of votes rows of post id
RECURSIVE CountVotes(_, _)
CountVotes(id, n) ==
    IF n = 0 THEN 0 ELSE votes[<<id, n>>] + CountVotes(id, n - 1)

\* schema.PostJoin
PostJoin(post, votes_count) == [post |-> post, votes |-> votes_count]

\* GET /posts/{id} arrives at worker r; get_post has no auth dependency
StartGetPost(r, ids) ==
    /\ Free(r)
    /\ \E id \in ids :
          Become(r, [IdleReq EXCEPT !.pc = "query", !.op = "get_post", !.id = id])
    /\ UNCHANGED <<users, users_id_seq, posts, posts_id_seq, votes, held, clock>>

\* db.query(Post, count).join(Vote, isouter=True).group_by(Post.id).first():
\* the query has no filter on id and no ORDER BY, so first() is any one of
\* the rows of posts, and None only when posts is empty.
get_post_query(r) ==
    /\ req[r].pc = "query" /\ req[r].op = "get_post"
    /\ IF DOMAIN posts = {}
       THEN Finish(r, HTTPException(404, "post with id " \o ToString(req[r].id)
                                            \o " not found", ""))
       ELSE \E p \in DOMAIN posts :
               Finish(r, Response(200, Some(PostJoin(PostSchema(p, posts[p]),
                                                     CountVotes(p, MaxUsers)))))
    /\ UNCHANGED <<users, users_id_seq, posts, posts_id_seq, votes, held, clock>>

(***************************************************************************)
(* Specification Spec: requests of two registered, logged-in clients       *)
(* running concurrently on one post id, while an administrator may delete  *)
(* users.                                                                  *)
(***************************************************************************)
HeldTokens == {Get(held[u]) : u \in {v \in UserIds : held[v] # None}}
P1 == [title |-> "t1", content |-> "c1", published |-> TRUE]
\* the post ids the clients of Spec name: the first post
RaceIds == {1}

\* every user id has registered; with tokens, each has logged in at instant 0
Registered(tokens) ==
    /\ users = [u \in UserIds |->
                  [email |-> Email(u),
                   password |-> hash_password("secret1")]]
    /\ users_id_seq = MaxUsers
    /\ posts = <<>>
    /\ posts_id_seq = 0
    /\ votes = [k \in PostIds \X UserIds |-> 0]
    /\ held = [u \in UserIds |->
                 IF tokens THEN Some(create_access_token([user_id |-> Some(u)], 0))
                 ELSE None]
    /\ clock = 0
    /\ req = [r \in Procs |-> IdleReq]
    /\ hist = <<>>
    /\ issued = None
    /\ checked = None
    /\ extra = ExtraInit

Admin == \E u \in UserIds : AdminDeleteUser(u)

NoHistory == UNCHANGED <<hist, issued, checked, extra>>

Next ==
    \/ \E u \in UserIds : AdminDeleteUser(u) /\ NoHistory
    \/ \E r \in Procs :
          StartCreatePost(r, HeldTokens, {P1}, Cardinality(RaceIds)) /\ NoHistory
    \/ \E r \in Procs :
          StartUpdatePost(r, HeldTokens, RaceIds, PostCreate) /\ NoHistory
    \/ \E r \in Procs : StartDeletePost(r, HeldTokens, RaceIds) /\ NoHistory
    \/ \E r \in Procs :
          StartVote(r, HeldTokens, RaceIds, VoteSchema_dir) /\ NoHistory
    \/ \E r \in Procs : vote_query(r) /\ NoHistory
    \/ \E r \in Procs : vote_commit(r) /\ NoHistory
    \/ \E r \in Procs : vote_refresh(r) /\ NoHistory
    \/ \E r \in Procs : create_post_commit(r) /\ NoHistory
    \/ \E r \in Procs : create_post_refresh(r) /\ NoHistory
    \/ \E r \in Procs : delete_post_query(r) /\ NoHistory
    \/ \E r \in Procs : delete_post_commit(r) /\ NoHistory
    \/ \E r \in Procs : update_post_query(r) /\ NoHistory
    \/ \E r \in Procs : update_post_commit(r) /\ NoHistory
    \/ \E r \in Procs : update_post_refresh(r) /\ NoHistory

Spec == Registered(TRUE) /\ [][Next]_vars

Status(r) == Get(req[r].resp).status
Authenticated(r) == req[r].op # "" /\ req[r].current_user # None
IsAdd(r) == req[r].op = "vote" /\ req[r].dir = 1 /\ Authenticated(r)

\* C1: of two dir=1 vote requests for the same (user, post) that run
\* concurrently, one succeeds and the other fails with 409, never with a
\* generic failure.  The loser is the request whose INSERT meets the row the
\* other committed after its own existence query found none.
C1_RaceLoserGetsConflict ==
    \A r \in Procs :
        (IsAdd(r) /\ req[r].pc = "done" /\ ~req[r].existing_vote
           /\ req[r].exc = "IntegrityError: UniqueViolation")
        => Status(r) = 409

\* C4: the votes table never holds two rows for one (post_id, owner_id).
C4_OneVotePerPair == \A k \in DOMAIN votes : votes[k] <= 1

\* a second INSERT of an existing (post_id, owner_id) was attempted and the
\* table still holds the one row
C4_Witness ==
    \E r \in Procs :
        /\ IsAdd(r) /\ req[r].exc = "IntegrityError: UniqueViolation"
        /\ votes[<<req[r].id, Get(req[r].current_user)>>] = 1

IsPostWrite(r) == req[r].op \in {"update_post", "delete_post"} /\ Authenticated(r)

\* the handler of r has run its lookup
LookedUp(r) == IsPostWrite(r) /\ req[r].pc \in {"commit", "refresh", "done"}

\* C5, for each request: update_post and delete_post by a user who is not
\* the owner of the post found end with 403 and write nothing.
C5_NotOwnerForbidden ==
    \A r \in Procs :
        (LookedUp(r) /\ req[r].post # None
           /\ Get(req[r].post).owner_id # Get(req[r].current_user))
        => (req[r].pc = "done" /\ Status(r) = 403 /\ ~req[r].wrote)

\* C5, for each step: a post changes or disappears only in the commit of an
\* update_post or delete_post request authenticated as its owner (or with
\* its owner's row, deleted by the administrator).
C5_PostChangedByOwner ==
    \A p \in DOMAIN posts :
        (p \notin DOMAIN posts' \/ posts'[p] # posts[p])
        => \/ posts[p].owner_id \notin DOMAIN users'
           \/ \E r \in Procs :
                 /\ IsPostWrite(r) /\ req[r].pc = "commit" /\ req[r].id = p
                 /\ Get(req[r].current_user) = posts[p].owner_id
                 /\ req'[r].wrote

\* C5: only the owner may mutate or delete a post.
C5_OnlyOwnerMutates == []C5_NotOwnerForbidden /\ [][C5_PostChangedByOwner]_vars

\* a user who is not the owner was refused, and the post is as it was found
C5_Witness ==
    \E r \in Procs :
        /\ LookedUp(r) /\ req[r].pc = "done" /\ req[r].post # None
        /\ Get(req[r].post).owner_id # Get(req[r].current_user)
        /\ Status(r) = 403
        /\ req[r].id \in DOMAIN posts /\ posts[req[r].id] = Get(req[r].post)

\* C6: update_post and delete_post on an id with no post end with 404,
\* never 403, whoever the caller is.
C6_MissingPostNotFound ==
    \A r \in Procs :
        (LookedUp(r) /\ req[r].post = None)
        => (req[r].pc = "done" /\ Status(r) = 404)

\* both handlers have answered 404 for a missing post
C6_Witness ==
    /\ \E r \in Procs : LookedUp(r) /\ req[r].post = None /\ Status(r) = 404
                        /\ req[r].op = "update_post"
    /\ \E r \in Procs : LookedUp(r) /\ req[r].post = None /\ Status(r) = 404
                        /\ req[r].op = "delete_post"

\* the token of r is signed by this server and has not expired
TokenGood(r) == jwt_decode(req[r].token, SECRET_KEY, ALGORITHM, clock).ok

\* C10: a request that arrives after its token's user row was deleted is
\* answered 401 and writes nothing, for create_post, update_post,
\* delete_post and vote.
C10_DeletedUserRejected ==
    \A r \in Procs :
        (req[r].op # "" /\ req[r].user_gone)
        => /\ req[r].pc = "done"
           /\ req[r].resp = Some(credentials_exception)
           /\ ~req[r].wrote

\* a deleted user's unexpired, correctly signed token was refused
C10_Witness ==
    \E r \in Procs :
        /\ req[r].op # "" /\ req[r].user_gone /\ TokenGood(r)
        /\ req[r].pc = "done" /\ Status(r) = 401

(***************************************************************************)
(* Specification SpecSeq: the requests of two registered clients handled   *)
(* one after the other, with the history of the vote requests completed    *)
(* in a row (any other operation empties it).                              *)
(***************************************************************************)
Quiet == \A r \in Procs : Free(r)

\* the history entry of a completed vote request
Entry(rq, table) ==
    [user |-> Get(rq.current_user), post |-> rq.id, dir |-> rq.dir,
     status |-> Get(rq.resp).status, wrote |-> rq.wrote, votes |-> table]

Latest(h) == IF Len(h) > MaxHist THEN Tail(h) ELSE h

Log(r) ==
    /\ hist' = IF req'[r].pc # "done"
               THEN hist
               ELSE IF req'[r].op = "vote" /\ req'[r].current_user # None
                       /\ req'[r].dir \in VoteSchema_dir
               THEN Latest(Append(hist, Entry(req'[r], votes')))
               ELSE <<>>
    /\ UNCHANGED <<issued, checked, extra>>

Forget == hist' = <<>> /\ UNCHANGED <<issued, checked, extra>>

NextSeq ==
    \/ \E u \in UserIds : Quiet /\ AdminDeleteUser(u) /\ Forget
    \/ Quiet /\ StartCreatePost(1, HeldTokens, {P1}, Cardinality(RaceIds)) /\ Log(1)
    \/ Quiet /\ StartDeletePost(1, HeldTokens, RaceIds) /\ Log(1)
    \/ Quiet /\ StartVote(1, HeldTokens, PostIds, Dirs) /\ Log(1)
    \/ vote_query(1) /\ Log(1)
    \/ vote_commit(1) /\ Log(1)
    \/ vote_refresh(1) /\ Log(1)
    \/ create_post_commit(1) /\ Log(1)
    \/ create_post_refresh(1) /\ Log(1)
    \/ delete_post_query(1) /\ Log(1)
    \/ delete_post_commit(1) /\ Log(1)

SpecSeq == Registered(TRUE) /\ [][NextSeq]_vars

SamePair(a, b) == a.user = b.user /\ a.post = b.post
Pairs == {i \in 1..Len(hist) : i < Len(hist)}

\* C2: of two successive dir=1 vote requests by one user on one post, when
\* the first is answered 201 the second is answered 409 and leaves the votes
\* table as it was; they are never both answered 201.
C2_SecondAddConflicts ==
    \A i \in Pairs :
        LET a == hist[i]
            b == hist[i + 1]
        IN  (a.dir = 1 /\ b.dir = 1 /\ SamePair(a, b))
            => /\ ~(a.status = 201 /\ b.status = 201)
               /\ a.status = 201 => (b.status = 409 /\ ~b.wrote /\ b.votes = a.votes)

\* an add answered 201 was followed by the same add, answered 409
C2_Witness ==
    \E i \in Pairs :
        /\ hist[i].dir = 1 /\ hist[i + 1].dir = 1 /\ SamePair(hist[i], hist[i + 1])
        /\ hist[i].status = 201 /\ hist[i + 1].status = 409

\* C3: a dir=0 vote request finding no row (p, u) is answered 404 and
\* changes nothing; after an add answered 201 it is answered 204 and deletes
\* exactly the row (p, u); the next one is answered 404 again.
C3_RemoveSemantics ==
    /\ \A i \in 1..Len(hist) :
          LET e == hist[i] IN
          (e.dir = 0 /\ ~e.wrote /\ e.votes[<<e.post, e.user>>] = 0)
          => e.status = 404
    /\ \A i \in Pairs :
          LET a == hist[i]
              b == hist[i + 1]
              k == <<b.post, b.user>>
          IN  /\ (b.dir = 0 /\ a.votes[k] = 0)
                 => (b.status = 404 /\ b.votes = a.votes)
              /\ (a.dir = 1 /\ a.status = 201 /\ b.dir = 0 /\ SamePair(a, b))
                 => /\ b.status = 204
                    /\ a.votes[k] = 1
                    /\ b.votes = [a.votes EXCEPT ![k] = 0]
              /\ (a.dir = 0 /\ a.status = 204 /\ b.dir = 0 /\ SamePair(a, b))
                 => (b.status = 404 /\ b.votes = a.votes)

\* add 201, remove 204, remove 404 by one user on one post, in a row
C3_Witness ==
    /\ Len(hist) >= 3
    /\ LET a == hist[Len(hist) - 2]
           b == hist[Len(hist) - 1]
           c == hist[Len(hist)]
       IN  /\ SamePair(a, b) /\ SamePair(b, c)
           /\ a.dir = 1 /\ a.status = 201
           /\ b.dir = 0 /\ b.status = 204
           /\ c.dir = 0 /\ c.status = 404

(***************************************************************************)
(* Specification SpecAuth: registration, login, the clock, the             *)
(* administrator, and requests carrying any bearer token.                  *)
(***************************************************************************)
\* the instants SpecAuth reaches: past the expiry of a token issued at once
AuthHorizon == timedelta_minutes(ACCESS_TOKEN_EXPIRE_MINUTES) + 1

NextAuth ==
    \/ \E email \in Emails, password \in Passwords :
          create_user(email, password) /\ NoHistory
    \/ \E email \in Emails, password \in Guesses :
          login(email, password) /\ NoHistory
    \/ Tick(timedelta_minutes(ACCESS_TOKEN_EXPIRE_MINUTES), AuthHorizon) /\ NoHistory
    \/ \E u \in UserIds : AdminDeleteUser(u) /\ NoHistory
    \/ \E r \in Procs : StartDeletePost(r, BearerTokens, RaceIds) /\ NoHistory
    \/ \E r \in Procs : StartVote(r, BearerTokens, RaceIds, Dirs) /\ NoHistory
    \/ \E r \in Procs : vote_query(r) /\ NoHistory
    \/ \E r \in Procs : vote_commit(r) /\ NoHistory
    \/ \E r \in Procs : delete_post_query(r) /\ NoHistory

SpecAuth == Init /\ [][NextAuth]_vars

AuthFailures ==
    {"DecodeError", "InvalidAlgorithmError", "InvalidSignatureError",
     "ExpiredSignatureError", "MissingClaim", "UserNotFound"}

\* C7: every request get_current_active_user refuses, for whatever reason,
\* gets the one 401 response, so any two of them get equal responses.
C7_OneUnauthorizedResponse ==
    /\ \A r \in Procs :
          req[r].authErr # ""
          => /\ req[r].authErr \in AuthFailures
             /\ req[r].pc = "done"
             /\ req[r].resp = Some(credentials_exception)
    /\ \A r1, r2 \in Procs :
          (req[r1].authErr # "" /\ req[r2].authErr # "")
          => req[r1].resp = req[r2].resp

\* an expired token and the token of a deleted user were refused alike
C7_Witness ==
    \E r1, r2 \in Procs :
        /\ req[r1].authErr = "ExpiredSignatureError"
        /\ req[r2].authErr = "UserNotFound"
        /\ req[r1].resp = req[r2].resp

(***************************************************************************)
(* Specification SpecToken: the token service on its own.  A token is      *)
(* issued for any user id at any of the first instants, time passes, and   *)
(* the token is verified at any later instant.                             *)
(***************************************************************************)
TTL == timedelta_minutes(ACCESS_TOKEN_EXPIRE_MINUTES)

\* the instants the clock visits: those a token is issued at, and those
\* from one second before to one second past the last t + TTL
TokenInstants ==
    (0 .. MaxIssueTick)
        \cup ((TTL - TicksPerSecond) .. (MaxIssueTick + TTL + TicksPerSecond))
TokenHorizon == MaxIssueTick + TTL + TicksPerSecond

InitToken ==
    /\ users = <<>>
    /\ users_id_seq = 0
    /\ posts = <<>>
    /\ posts_id_seq = 0
    /\ votes = [k \in PostIds \X UserIds |-> 0]
    /\ held = [u \in UserIds |-> None]
    /\ clock \in 0 .. MaxIssueTick
    /\ req = [r \in Procs |-> IdleReq]
    /\ hist = <<>>
    /\ issued = None
    /\ checked = None
    /\ extra = ExtraInit

\* login's call create_access_token(data={"user_id": user.id}) at the
\* current instant
IssueToken(user_id) ==
    /\ issued = None
    /\ issued' = Some([at |-> clock, user_id |-> user_id,
                       token |-> create_access_token([user_id |-> Some(user_id)],
                                                     clock)])
    /\ UNCHANGED <<store, held, clock, req, hist, checked, extra>>

\* get_current_active_user's call verify_access_token(token,
\* credentials_exception) at the current instant
VerifyToken ==
    /\ issued # None
    /\ checked' = Some([at |-> clock,
                        result |-> verify_access_token(Get(issued).token,
                                                       credentials_exception,
                                                       clock)])
    /\ UNCHANGED <<store, held, clock, req, hist, issued, extra>>

NextToken ==
    \/ \E user_id \in UserIds : IssueToken(user_id)
    \/ \E t \in TokenInstants :
          t > clock /\ Tick(t - clock, TokenHorizon)
                    /\ UNCHANGED <<hist, issued, checked, extra>>
    \/ VerifyToken

SpecToken == InitToken /\ [][NextToken]_vars

\* C8: a token verified at the instant it was issued at is accepted, and the
\* verification returns the user id it was issued for.
C8_RoundTrip ==
    (issued # None /\ checked # None /\ Get(checked).at = Get(issued).at)
    => /\ Get(checked).result.ok
       /\ Get(checked).result.username = Some(Get(issued).user_id)

\* a token was issued for user 2 between two seconds and verified at once
C8_Witness ==
    /\ issued # None /\ checked # None
    /\ Get(issued).user_id = 2
    /\ Get(issued).at % TicksPerSecond # 0
    /\ Get(checked).at = Get(issued).at
    /\ Get(checked).result.username = Some(2)

Expired(c) == c.result.err = "ExpiredSignatureError"

\* C9 as claimed: the token expires at t + TTL, so a verification fails on
\* account of expiry exactly when it happens at now >= t + TTL.
C9_ExpiresAtIssuePlusTTL ==
    (issued # None /\ checked # None)
    => (Expired(Get(checked)) <=> Get(checked).at >= Get(issued).at + TTL)

\* C9 amended: the token carries expires_at = t + TTL truncated to whole
\* seconds; a verification at now >= expires_at fails, also at now equal to
\* expires_at, and a verification before expires_at succeeds.
C9_ExpiresAtEncodedSecond ==
    /\ issued # None
       => Get(issued).token.exp = (Get(issued).at + TTL) \div TicksPerSecond
    /\ (issued # None /\ checked # None)
       => LET expires_at == Get(issued).token.exp * TicksPerSecond
              now        == Get(checked).at
          IN  /\ now >= expires_at
                 => ~Get(checked).result.ok /\ Expired(Get(checked))
              /\ now < expires_at
                 => Get(checked).result.ok /\ ~Expired(Get(checked))

\* a token issued between two seconds was refused exactly at its encoded
\* expiry, before t + TTL
C9_Witness ==
    /\ issued # None /\ checked # None
    /\ Get(issued).at % TicksPerSecond # 0
    /\ Get(checked).at = Get(issued).token.exp * TicksPerSecond
    /\ Get(checked).at < Get(issued).at + TTL
    /\ Expired(Get(checked))

(***************************************************************************)
(* Specification SpecPosts: the requests of two registered clients on two  *)
(* post ids, handled one after the other: create_post, update_post,        *)
(* delete_post, vote (dir 1) and get_post.  No user is deleted, so the     *)
(* store changes only in the steps of the request being handled.           *)
(***************************************************************************)
NextPosts ==
    \/ StartCreatePost(1, HeldTokens, {P1}, MaxPosts) /\ NoHistory
    \/ StartUpdatePost(1, HeldTokens, PostIds, PostCreate) /\ NoHistory
    \/ StartDeletePost(1, HeldTokens, PostIds) /\ NoHistory
    \/ StartVote(1, HeldTokens, PostIds, {1}) /\ NoHistory
    \/ StartGetPost(1, PostIds) /\ NoHistory
    \/ vote_query(1) /\ NoHistory
    \/ vote_commit(1) /\ NoHistory
    \/ vote_refresh(1) /\ NoHistory
    \/ create_post_commit(1) /\ NoHistory
    \/ create_post_refresh(1) /\ NoHistory
    \/ delete_post_query(1) /\ NoHistory
    \/ delete_post_commit(1) /\ NoHistory
    \/ update_post_query(1) /\ NoHistory
    \/ update_post_commit(1) /\ NoHistory
    \/ update_post_refresh(1) /\ NoHistory
    \/ get_post_query(1) /\ NoHistory

SpecPosts == Registered(TRUE) /\ [][NextPosts]_vars

\* C11: get_post(id) answers 200 with the post whose id is the requested id
\* and its vote count when that post exists, and 404 when it does not (so
\* also after the post was deleted, whatever other posts remain).
C11_GetPostById ==
    \A r \in Procs :
        (req[r].op = "get_post" /\ req[r].pc = "done")
        => IF req[r].id \in DOMAIN posts
           THEN /\ Status(r) = 200
                /\ Get(Get(req[r].resp).body).post.id = req[r].id
                /\ Get(Get(req[r].resp).body).votes = CountVotes(req[r].id, MaxUsers)
           ELSE Status(r) = 404

(***************************************************************************)
(* Claims on SpecSeq about the direction of a vote.                        *)
(***************************************************************************)
\* C12: an authenticated vote request whose dir is neither 0 nor 1 is
\* answered 400 and creates or deletes no vote row.
C12_InvalidDirBadRequest ==
    \A r \in Procs :
        (req[r].op = "vote" /\ Authenticated(r) /\ req[r].pc = "done"
           /\ req[r].dir \notin {0, 1})
        => (Status(r) = 400 /\ ~req[r].wrote)

(***************************************************************************)
(* src/extra/main.py: the psycopg2 application.  The module connects in a  *)
(* loop while it loads; once the loop is left the module finishes loading  *)
(* and the server handles requests with the module-level cursor.           *)
(***************************************************************************)
\* what psycopg2.connect may do: return a connection, or raise
\* OperationalError, another psycopg2.Error, or another Exception
ConnectOutcomes == {"connected", "OperationalError", "Error", "Exception"}

\* the body of a POST /posts request (extra/main.py: class Post)
extra_Post == PostCreate

ExtraStep(rec) ==
    /\ extra' = rec
    /\ UNCHANGED <<store, held, clock, req, hist, issued, checked>>

\* one pass of the while True loop: try psycopg2.connect(...), conn.cursor(),
\* break; except OperationalError: sleep and go round again; except
\* psycopg2.Error, except Exception: print and break.
psycopg2_connect(outcome) ==
    /\ extra.pc = "connect"
    /\ outcome = "OperationalError" => extra.retries < MaxRetries
    /\ ExtraStep(
         IF outcome = "connected"
         THEN [extra EXCEPT !.pc = "serving", !.conn = TRUE, !.error = ""]
         ELSE IF outcome = "OperationalError"
         THEN [extra EXCEPT !.pc = "sleep", !.retries = @ + 1, !.error = outcome]
         ELSE [extra EXCEPT !.pc = "serving", !.error = outcome])

\* time.sleep(2), then the next pass of the loop
time_sleep ==
    /\ extra.pc = "sleep"
    /\ ExtraStep([extra EXCEPT !.pc = "connect"])

\* a handler that uses the module-level cursor when the loop never bound
\* it: NameError, which nothing catches
NameError == Some(InternalServerError)

\* GET /: root
extra_root ==
    /\ extra.pc = "serving"
    /\ ExtraStep([extra EXCEPT !.resp = Some(Response(200, Some([text |-> "Home Page"])))])

\* GET /posts: get_posts
extra_get_posts ==
    /\ extra.pc = "serving"
    /\ ExtraStep([extra EXCEPT !.resp =
                    IF extra.conn
                    THEN Some(Response(200, Some([data |-> extra.table])))
                    ELSE NameError])

\* POST /posts: create_post
extra_create_post(post) ==
    /\ extra.pc = "serving"
    /\ extra.id_seq < MaxPosts
    /\ ExtraStep(
         IF extra.conn
         THEN LET id == extra.id_seq + 1 IN
              [extra EXCEPT !.id_seq = id, !.table = (id :> post) @@ extra.table,
                            !.resp = Some(Response(201, Some([new_post |-> post])))]
         ELSE [extra EXCEPT !.resp = NameError])

\* DELETE /posts/{id}: delete_post
extra_delete_post(id) ==
    /\ extra.pc = "serving"
    /\ ExtraStep(
         IF ~extra.conn
         THEN [extra EXCEPT !.resp = NameError]
         ELSE IF id \in DOMAIN extra.table
         THEN [extra EXCEPT
                 !.table = [p \in DOMAIN extra.table \ {id} |-> extra.table[p]],
                 !.resp = Some(Response(204, None))]
         ELSE [extra EXCEPT !.resp =
                 Some(HTTPException(404, "post id with " \o ToString(id)
                                            \o " not found", ""))])

NextExtra ==
    \/ \E outcome \in ConnectOutcomes : psycopg2_connect(outcome)
    \/ time_sleep
    \/ extra_root
    \/ extra_get_posts
    \/ \E post \in extra_Post : extra_create_post(post)
    \/ \E id \in PostIds : extra_delete_post(id)

SpecExtra == Init /\ [][NextExtra]_vars

\* C13: the psycopg2 application serves requests only with an established
\* database connection, whatever made connecting fail.
C13_FailsClosed == extra.pc = "serving" => extra.conn

(***************************************************************************)
(* Claims on SpecPosts about what the post handlers write.                 *)
(***************************************************************************)
\* the step is the commit of the update_post request of worker r
UpdateCommits(r) ==
    req[r].op = "update_post" /\ req[r].pc = "commit" /\ req'[r] # req[r]

C14_Step ==
    /\ \A p \in DOMAIN posts \cap DOMAIN posts' :
          posts'[p].owner_id = posts[p].owner_id
    /\ \A p \in DOMAIN posts' \ DOMAIN posts :
          /\ p > posts_id_seq
          /\ \E r \in Procs :
                /\ req[r].op = "create_post" /\ req[r].pc = "commit"
                /\ req'[r].id = p
                /\ posts'[p].owner_id = Get(req[r].current_user)
    /\ \A r \in Procs :
          UpdateCommits(r)
          => /\ votes' = votes
             /\ DOMAIN posts' = DOMAIN posts
             /\ \A p \in DOMAIN posts \ {req[r].id} : posts'[p] = posts[p]

\* C14: a new post gets a fresh id and the caller as owner_id; no step
\* changes the owner_id of an existing post; the commit of update_post
\* changes at most the targeted post and leaves every vote row as it was.
C14_OwnershipFixed == [][C14_Step]_vars

\* user 2 has updated its own post while another post and a vote exist
C14_Witness ==
    /\ req[1].op = "update_post" /\ req[1].pc = "done" /\ req[1].wrote
    /\ Status(1) = 200
    /\ req[1].current_user = Some(2)
    /\ Cardinality(DOMAIN posts) = 2
    /\ posts[req[1].id].owner_id = 2
    /\ posts[req[1].id].title = req[1].payload.title
    /\ \E k \in DOMAIN votes : votes[k] > 0

(***************************************************************************)
(* Claims on Spec about the rows votes refers to.                          *)
(***************************************************************************)
\* C15: every vote row names an existing post and an existing user, also
\* after a vote on a missing post and after a post or a user was deleted.
C15_VotesReferToRows ==
    \A k \in DOMAIN votes :
        votes[k] > 0 => (k[1] \in DOMAIN posts /\ k[2] \in DOMAIN users)

\* a dir=1 vote named a post that does not exist: its INSERT was refused
\* and no vote row of that post is left
C15_Witness ==
    \E r \in Procs :
        /\ IsAdd(r) /\ req[r].pc = "done"
        /\ req[r].exc = "IntegrityError: ForeignKeyViolation"
        /\ req[r].id \notin DOMAIN posts
        /\ \A u \in UserIds : votes[<<req[r].id, u>>] = 0

====
